---- MODULE Spec2Model ----
(***************************************************************************)
(* Model of the two extractors of apple-health-tools:                      *)
(*   src/extract/gpx_routes.py     (parse_gpx_file, process_gpx_files,     *)
(*                                  main)                                  *)
(*   src/extract/health_records.py (HealthDataExporter, main)              *)
(*                                                                         *)
(* Python values are modelled as follows.                                  *)
(*   str      a sequence of one-character strings, <<"h","r">> for "hr"    *)
(*   None     the one-element sequence NoneV (its element is no character) *)
(*   float    <<"float", sign, mantissa, exponent>> in normal form         *)
(*   NaN/NaT  the missing-value markers of a pandas DataFrame              *)
(*   dict     a sequence of <<key, value>> pairs with distinct keys, in    *)
(*            insertion order                                              *)
(* XML elements are records holding the attributes and children the code   *)
(* reads.  The text of a child element that does not exist is Absent; the  *)
(* extensions field of a trkpt is <<>> when it has no extensions element   *)
(* and <<children>> when it has one.                                       *)
(***************************************************************************)
EXTENDS Integers, Sequences, FiniteSets, TLC

VARIABLES
    gpx_files,      \* glob.glob(input_pattern): the GPX documents, in glob order
    gpc,            \* position of gpx_routes.main / process_gpx_files
    gi,             \* index of the file the for loop of process_gpx_files is at
    all_data,       \* process_gpx_files: all_data
    gerrors,        \* file names reported on stderr by process_gpx_files
    df,             \* the DataFrame: [columns, rows]
    gout,           \* the CSV written by df.to_csv: [written, columns, rows]
    input_exists,   \* health main: args.input.exists()
    xml_records,    \* the Record elements of export.xml, in document order
    record_type,    \* args.type
    hpc,            \* position of health_records.main / export_record_type
    records,        \* export_record_type: records
    p1,             \* _get_metadata_keys: index of the record pass 1 is at
    metadata_keys,  \* metadata_keys (a Python set)
    headers,        \* export_record_type: headers
    hi,             \* export_record_type: index of the record pass 2 is at
    hout,           \* the CSV file: [opened, lines]
    header_writes,  \* how many times writer.writeheader() has run
    ext_text,       \* input of the numeric-detection rule (ext.text)
    ext_result      \* outcome of the rule: [done, raised, value]

vars == <<gpx_files, gpc, gi, all_data, gerrors, df, gout,
          input_exists, xml_records, record_type, hpc, records, p1,
          metadata_keys, headers, hi, hout, header_writes,
          ext_text, ext_result>>

gvars == <<gpx_files, gpc, gi, all_data, gerrors, df, gout>>
hvars == <<input_exists, xml_records, record_type, hpc, records, p1,
           metadata_keys, headers, hi, hout, header_writes>>
nvars == <<ext_text, ext_result>>

----------------------------------------------------------------------------
(* Bounds of the model. *)

MaxFiles == 2      \* GPX files per run
MaxTrkpts == 2     \* trackpoints per GPX file
MaxPoints == 3     \* trackpoints of all GPX files of a run together
MaxRecords == 3    \* Record elements per export.xml
MaxTextLen == 4    \* characters of an extension value given to the rule

----------------------------------------------------------------------------
(* Python values. *)

NoneV == <<"None">>
Absent == <<"Absent">>
NaN == <<"NaN">>
NaT == <<"NaT">>

Digits == {"0", "1"}

\* The ASCII characters from '-' (45) to '}' (125), in code-point order; the
\* backslash (92) and the backquote (96), which no string of the model holds,
\* are placeholders.
Ascii45 ==
    << "-", ".", "/", "0", "1", "2", "3", "4", "5", "6", "7", "8", "9",
       ":", ";", "<", "=", ">", "?", "@", "A", "B", "C", "D", "E", "F",
       "G", "H", "I", "J", "K", "L", "M", "N", "O", "P", "Q", "R", "S",
       "T", "U", "V", "W", "X", "Y", "Z", "[", "(92)", "]", "^", "_", "(96)",
       "a", "b", "c", "d", "e", "f", "g", "h", "i", "j", "k", "l", "m",
       "n", "o", "p", "q", "r", "s", "t", "u", "v", "w", "x", "y", "z",
       "{", "|", "}" >>

\* ord(c)
Ord(c) == 44 + (CHOOSE i \in 1..Len(Ascii45) : Ascii45[i] = c)

\* str < str: lexicographic by code point.
RECURSIVE StrLess(_, _)
StrLess(s, t) ==
    IF t = <<>> THEN FALSE
    ELSE IF s = <<>> THEN TRUE
    ELSE IF s[1] = t[1] THEN StrLess(Tail(s), Tail(t))
    ELSE Ord(s[1]) < Ord(t[1])

\* str.replace(c, '')
RECURSIVE Remove(_, _)
Remove(s, c) ==
    IF s = <<>> THEN <<>>
    ELSE IF s[1] = c THEN Remove(Tail(s), c)
    ELSE <<s[1]>> \o Remove(Tail(s), c)

\* str.isdigit()
IsDigit(s) == s # <<>> /\ \A i \in 1..Len(s) : s[i] \in Digits

\* s.split(c)[-1]: what follows the last c, all of s when it holds no c.
RECURSIVE SplitLast(_, _)
SplitLast(s, c) ==
    IF \E i \in 1..Len(s) : s[i] = c
    THEN SplitLast(SubSeq(s, (CHOOSE i \in 1..Len(s) : s[i] = c) + 1, Len(s)), c)
    ELSE s

Count(s, c) == Cardinality({i \in 1..Len(s) : s[i] = c})

DigitVal(c) == IF c = "1" THEN 1 ELSE 0

RECURSIVE ToInt(_)
ToInt(s) == IF s = <<>> THEN 0 ELSE 10 * ToInt(SubSeq(s, 1, Len(s) - 1)) + DigitVal(s[Len(s)])

\* A float in normal form: the mantissa carries no trailing zero.
RECURSIVE Normalise(_, _, _)
Normalise(sign, m, e) ==
    IF m = 0 THEN <<"float", sign, 0, 0>>
    ELSE IF m % 10 = 0 THEN Normalise(sign, m \div 10, e + 1)
    ELSE <<"float", sign, m, e>>

IsFloat(v) == Len(v) = 4 /\ v[1] = "float"

FirstIndex(s, c) == IF \E i \in 1..Len(s) : s[i] = c
                    THEN CHOOSE i \in 1..Len(s) : s[i] = c /\ \A j \in 1..(i - 1) : s[j] # c
                    ELSE 0

\* float(x) of Python: [raised |-> TRUE] for TypeError (x is None) and for
\* ValueError (x is no float literal), else the value.  The literals over the
\* model's characters are [-] digits [. digits] [e [-] digits] with at least
\* one mantissa digit.
PyFloat(x) ==
    IF x = NoneV THEN [raised |-> TRUE, value |-> NoneV]
    ELSE
    LET neg  == x # <<>> /\ x[1] = "-"
        body == IF neg THEN Tail(x) ELSE x
        epos == FirstIndex(body, "e")
        mant == IF epos = 0 THEN body ELSE SubSeq(body, 1, epos - 1)
        expo == IF epos = 0 THEN <<>> ELSE SubSeq(body, epos + 1, Len(body))
        eneg == expo # <<>> /\ expo[1] = "-"
        edig == IF eneg THEN Tail(expo) ELSE expo
        dpos == FirstIndex(mant, ".")
        mdig == Remove(mant, ".")
        ok   == /\ Count(mant, ".") <= 1
                /\ IsDigit(mdig)
                /\ (epos = 0 \/ IsDigit(edig))
        frac == IF dpos = 0 THEN 0 ELSE Len(mant) - dpos
        ev   == IF epos = 0 THEN 0 ELSE IF eneg THEN 0 - ToInt(edig) ELSE ToInt(edig)
    IN  IF ok THEN [raised |-> FALSE,
                    value |-> Normalise(IF neg THEN -1 ELSE 1, ToInt(mdig), ev - frac)]
        ELSE [raised |-> TRUE, value |-> NoneV]

\* gpx_routes.py line 91, the value stored for one extension element:
\*   float(ext.text) if ext.text.replace('.','').isdigit() else ext.text
\* ext.text is None for an element without text: None.replace raises.
ExtValue(text) ==
    IF text = NoneV THEN [raised |-> TRUE, value |-> NoneV]
    ELSE IF IsDigit(Remove(text, ".")) THEN PyFloat(text)
    ELSE [raised |-> FALSE, value |-> text]

----------------------------------------------------------------------------
(* Python dicts. *)

DictKeys(d) == [i \in 1..Len(d) |-> d[i][1]]
DictHas(d, k) == \E i \in 1..Len(d) : d[i][1] = k
DictGet(d, k, default) ==
    IF DictHas(d, k) THEN d[CHOOSE i \in 1..Len(d) : d[i][1] = k][2] ELSE default
\* d[k] = v: an existing key keeps its place.
DictSet(d, k, v) ==
    IF DictHas(d, k) THEN [i \in 1..Len(d) |-> IF d[i][1] = k THEN <<k, v>> ELSE d[i]]
    ELSE Append(d, <<k, v>>)

----------------------------------------------------------------------------
(* gpx_routes.py *)

K_filename == <<"f","i","l","e","n","a","m","e">>
K_latitude == <<"l","a","t","i","t","u","d","e">>
K_longitude == <<"l","o","n","g","i","t","u","d","e">>
K_elevation == <<"e","l","e","v","a","t","i","o","n">>
K_time == <<"t","i","m","e">>

GpxFixed == <<K_filename, K_latitude, K_longitude, K_elevation, K_time>>

\* os.path.basename
Basename(path) == SplitLast(path, "/")

\* lines 86-91: the extension children are stored into point_data one by one.
RECURSIVE AddExtensions(_, _)
AddExtensions(point_data, exts) ==
    IF exts = <<>> THEN [raised |-> FALSE, dict |-> point_data]
    ELSE LET ext == Head(exts)
             clean_tag == SplitLast(ext.tag, "}")
             v == ExtValue(ext.text)
         IN  IF v.raised THEN [raised |-> TRUE, dict |-> point_data]
             ELSE AddExtensions(DictSet(point_data, clean_tag, v.value), Tail(exts))

\* lines 78-91: the dict built for one trkpt element, or the exception.
PointData(filename, trkpt) ==
    LET lat == PyFloat(trkpt.lat)
        lon == PyFloat(trkpt.lon)
        ele == IF trkpt.ele = Absent THEN [raised |-> FALSE, value |-> NoneV]
               ELSE PyFloat(trkpt.ele)
        time == IF trkpt.time = Absent THEN NoneV ELSE trkpt.time
    IN  IF lat.raised \/ lon.raised \/ ele.raised
        THEN [raised |-> TRUE, dict |-> <<>>]
        ELSE LET point_data == << <<K_filename, filename>>,
                                  <<K_latitude, lat.value>>,
                                  <<K_longitude, lon.value>>,
                                  <<K_elevation, ele.value>>,
                                  <<K_time, time>> >>
             IN  IF trkpt.extensions = <<>>
                 THEN [raised |-> FALSE, dict |-> point_data]
                 ELSE AddExtensions(point_data, trkpt.extensions[1])

\* lines 77-93: the loop over the trackpoints; data is the local list, which
\* is lost when a trackpoint raises.
RECURSIVE ParseTrkpts(_, _, _)
ParseTrkpts(filename, trkpts, data) ==
    IF trkpts = <<>> THEN [raised |-> FALSE, data |-> data]
    ELSE LET p == PointData(filename, Head(trkpts))
         IN  IF p.raised THEN [raised |-> TRUE, data |-> data]
             ELSE ParseTrkpts(filename, Tail(trkpts), Append(data, p.dict))

\* A variant of parse_gpx_file: a trackpoint that raises is skipped and the
\* rest of the document is kept.
parse_gpx_file_skipping(file) ==
    IF ~file.wellformed THEN [raised |-> TRUE, data |-> <<>>]
    ELSE LET name == Basename(file.path)
             good == SelectSeq(file.trkpts, LAMBDA t : ~PointData(name, t).raised)
         IN  [raised |-> FALSE, data |-> [i \in 1..Len(good) |-> PointData(name, good[i]).dict]]

\* parse_gpx_file: ET.parse raises ParseError on a document that is not
\* well-formed XML.
parse_gpx_file(file) ==
    IF ~file.wellformed THEN [raised |-> TRUE, data |-> <<>>]
    ELSE ParseTrkpts(Basename(file.path), file.trkpts, <<>>)

\* pd.DataFrame(list of dicts): the columns are the keys in order of first
\* appearance; a key a dict lacks gives NaN.
RECURSIVE FirstSeen(_, _)
FirstSeen(dicts, cols) ==
    IF dicts = <<>> THEN cols
    ELSE LET ks == DictKeys(Head(dicts))
             new == SelectSeq(ks, LAMBDA k : \A i \in 1..Len(cols) : cols[i] # k)
         IN  FirstSeen(Tail(dicts), cols \o new)

DataFrame(dicts) ==
    LET columns == FirstSeen(dicts, <<>>)
    IN  [columns |-> columns,
         rows |-> [r \in 1..Len(dicts) |->
                     [c \in 1..Len(columns) |-> DictGet(dicts[r], columns[c], NaN)]]]

\* An ISO-8601 timestamp is written "T" followed by digits in the model.
IsTimestampText(v) == Len(v) >= 2 /\ v[1] = "T" /\ IsDigit(Tail(v))

\* pd.to_datetime of one cell: None and NaN give NaT, a number is taken as an
\* epoch offset, a timestamp text is parsed, any other text raises.
ToDatetimeRaises(v) == ~(v \in {NoneV, NaN} \/ IsFloat(v) \/ IsTimestampText(v))
ToDatetime(v) == IF v \in {NoneV, NaN} THEN NaT ELSE <<"datetime", v>>

ColumnIndex(columns, k) ==
    IF \E i \in 1..Len(columns) : columns[i] = k
    THEN CHOOSE i \in 1..Len(columns) : columns[i] = k ELSE 0


----------------------------------------------------------------------------
(* gpx_routes.py: main and process_gpx_files, one action per step. *)

\* A variant of ExtendAllData: the trackpoints parsed before the exception are
\* kept, as if parse_gpx_file appended to all_data itself.
ExtendAllDataKeepingPartial(data, parsed) == data \o parsed.data

\* lines 115-121: what one iteration of the for loop leaves in all_data.
\* The list parse_gpx_file was building is dropped when it raises.
ExtendAllData(data, parsed) ==
    IF parsed.raised THEN data ELSE data \o parsed.data

\* lines 133-136 and 108-112: main calls process_gpx_files; no file matching
\* the pattern raises FileNotFoundError, which main turns into exit status 1.
GpxStart ==
    /\ gpc = "main"
    /\ gpc' = IF gpx_files = <<>> THEN "exit1" ELSE "loop"
    /\ gi' = 1
    /\ all_data' = <<>>
    /\ UNCHANGED <<gpx_files, gerrors, df, gout, hvars, nvars>>

\* lines 114-121: one iteration of the loop over the files.
GpxProcessFile ==
    /\ gpc = "loop"
    /\ LET parsed == parse_gpx_file(gpx_files[gi])
       IN  /\ all_data' = ExtendAllData(all_data, parsed)
           /\ gerrors' = IF parsed.raised THEN Append(gerrors, gpx_files[gi].path)
                         ELSE gerrors
    /\ gi' = gi + 1
    /\ gpc' = IF gi = Len(gpx_files) THEN "frame" ELSE "loop"
    /\ UNCHANGED <<gpx_files, df, gout, hvars, nvars>>

\* line 123
GpxFrame ==
    /\ gpc = "frame"
    /\ df' = DataFrame(all_data)
    /\ gpc' = "to_datetime"
    /\ UNCHANGED <<gpx_files, gi, all_data, gerrors, gout, hvars, nvars>>

\* lines 126-129: the time column, when there is one, is converted; a value
\* pandas cannot parse raises, and main (lines 147-149) exits with status 1.
GpxToDatetime ==
    /\ gpc = "to_datetime"
    /\ LET t == ColumnIndex(df.columns, K_time)
       IN  IF t = 0 THEN /\ gpc' = "to_csv"
                         /\ df' = df
           ELSE IF \E r \in 1..Len(df.rows) : ToDatetimeRaises(df.rows[r][t])
           THEN /\ gpc' = "exit1"
                /\ df' = df
           ELSE /\ gpc' = "to_csv"
                /\ df' = [df EXCEPT !.rows =
                            [r \in 1..Len(df.rows) |->
                               [df.rows[r] EXCEPT ![t] = ToDatetime(df.rows[r][t])]]]
    /\ UNCHANGED <<gpx_files, gi, all_data, gerrors, gout, hvars, nvars>>

\* lines 144-145: the table is written and main returns (exit status 0).
GpxToCsv ==
    /\ gpc = "to_csv"
    /\ gout' = [written |-> TRUE, columns |-> df.columns, rows |-> df.rows]
    /\ gpc' = "exit0"
    /\ UNCHANGED <<gpx_files, gi, all_data, gerrors, df, hvars, nvars>>

GpxNext == GpxStart \/ GpxProcessFile \/ GpxFrame \/ GpxToDatetime \/ GpxToCsv

----------------------------------------------------------------------------
(* health_records.py *)

K_startDate == <<"s","t","a","r","t","D","a","t","e">>
K_value == <<"v","a","l","u","e">>
K_unit == <<"u","n","i","t">>
K_sourceName == <<"s","o","u","r","c","e","N","a","m","e">>

\* line 116
HealthFixed == <<K_startDate, K_value, K_unit, K_sourceName>>

\* A variant of EntryKeys: only the first MetadataEntry of a record is looked
\* at (find in place of findall).
EntryKeysOfFirstEntry(record) ==
    IF record.metadata = <<>> THEN {} ELSE {record.metadata[1].key}

\* lines 82-83: the keys of the MetadataEntry children of one record;
\* entry.get('key') is None for an entry without a key attribute.
EntryKeys(record) == {record.metadata[i].key : i \in 1..Len(record.metadata)}

\* sorted(keys) of Python: None and a str do not compare (TypeError); the
\* order of str is by code point.
SortedRaises(keys) == NoneV \in keys /\ Cardinality(keys) > 1

RECURSIVE Sorted(_)
Sorted(keys) ==
    IF keys = {} THEN <<>>
    ELSE LET least == CHOOSE k \in keys : \A o \in keys \ {k} : StrLess(k, o)
         IN  <<least>> \o Sorted(keys \ {least})

\* lines 116-118
Headers(keys) == IF keys # {} THEN HealthFixed \o Sorted(keys) ELSE HealthFixed

RECURSIVE AddMetadata(_, _)
AddMetadata(row, entries) ==
    IF entries = <<>> THEN row
    ELSE AddMetadata(DictSet(row, Head(entries).key, Head(entries).value), Tail(entries))

\* lines 126-136: the dict given to writer.writerow.
RowDict(record) ==
    AddMetadata(<< <<K_startDate, record.startDate>>,
                   <<K_value, record.value>>,
                   <<K_unit, record.unit>>,
                   <<K_sourceName, record.sourceName>> >>,
                record.metadata)

\* csv.DictWriter(f, fieldnames): restval is '' and extrasaction is 'raise'.
\* writerow raises ValueError for a dict with a key outside fieldnames and
\* otherwise writes [rowdict.get(key, restval) for key in fieldnames].
DictWriterRaises(fieldnames, rowdict) ==
    \E i \in 1..Len(rowdict) : \A j \in 1..Len(fieldnames) : fieldnames[j] # rowdict[i][1]

DictToList(fieldnames, rowdict) ==
    [j \in 1..Len(fieldnames) |-> DictGet(rowdict, fieldnames[j], <<>>)]

\* lines 195-210: main; a missing input file ends the run with status 1.
HealthStart ==
    /\ hpc = "main"
    /\ hpc' = IF input_exists THEN "find" ELSE "exit1"
    /\ UNCHANGED <<input_exists, xml_records, record_type, records, p1, metadata_keys,
                   headers, hi, hout, header_writes, gvars, nvars>>

\* lines 95-109: the records of the requested type; with none of them
\* export_record_type logs a warning and returns, and main returns after it.
HealthFind ==
    /\ hpc = "find"
    /\ records' = SelectSeq(xml_records, LAMBDA r : r.type = record_type)
    /\ hpc' = IF records' = <<>> THEN "exit0" ELSE "pass1"
    /\ p1' = 1
    /\ metadata_keys' = {}
    /\ UNCHANGED <<input_exists, xml_records, record_type, headers, hi, hout,
                   header_writes, gvars, nvars>>

\* A variant of HealthCollectKeys: the pass stops after the first record, so
\* the header is fixed before the later records have been seen.
HealthCollectKeysOfFirstRecord ==
    /\ hpc = "pass1"
    /\ metadata_keys' = metadata_keys \cup {records[p1].metadata[i].key :
                                              i \in 1..Len(records[p1].metadata)}
    /\ p1' = p1 + 1
    /\ hpc' = "headers"
    /\ UNCHANGED <<input_exists, xml_records, record_type, records, headers, hi, hout,
                   header_writes, gvars, nvars>>

\* lines 81-83: one iteration of the loop of _get_metadata_keys.
HealthCollectKeys ==
    /\ hpc = "pass1"
    /\ metadata_keys' = metadata_keys \cup EntryKeys(records[p1])
    /\ p1' = p1 + 1
    /\ hpc' = IF p1 = Len(records) THEN "headers" ELSE "pass1"
    /\ UNCHANGED <<input_exists, xml_records, record_type, records, headers, hi, hout,
                   header_writes, gvars, nvars>>

\* lines 116-118: sorted() raising is not caught: the run ends with a
\* traceback and status 1.
HealthHeaders ==
    /\ hpc = "headers"
    /\ IF SortedRaises(metadata_keys)
       THEN /\ hpc' = "exit1"
            /\ headers' = HealthFixed
       ELSE /\ hpc' = "open"
            /\ headers' = Headers(metadata_keys)
    /\ UNCHANGED <<input_exists, xml_records, record_type, records, p1, metadata_keys,
                   hi, hout, header_writes, gvars, nvars>>

\* lines 121-123: the file is opened and writeheader writes the field names.
HealthWriteHeader ==
    /\ hpc = "open"
    /\ hout' = [opened |-> TRUE, lines |-> <<headers>>]
    /\ header_writes' = header_writes + 1
    /\ hi' = 1
    /\ hpc' = "rows"
    /\ UNCHANGED <<input_exists, xml_records, record_type, records, p1, metadata_keys,
                   headers, gvars, nvars>>

\* lines 125-138 and 146-148: one iteration of the loop over the records;
\* an exception of writerow is logged and raised again (status 1).
HealthWriteRow ==
    /\ hpc = "rows"
    /\ LET row == RowDict(records[hi])
       IN  IF DictWriterRaises(headers, row)
           THEN /\ hpc' = "exit1"
                /\ hout' = hout
           ELSE /\ hpc' = IF hi = Len(records) THEN "exit0" ELSE "rows"
                /\ hout' = [hout EXCEPT !.lines = Append(@, DictToList(headers, row))]
    /\ hi' = hi + 1
    /\ UNCHANGED <<input_exists, xml_records, record_type, records, p1, metadata_keys,
                   headers, header_writes, gvars, nvars>>

HealthNext ==
    HealthStart \/ HealthFind \/ HealthCollectKeys \/ HealthHeaders
      \/ HealthWriteHeader \/ HealthWriteRow

----------------------------------------------------------------------------
(* The GPX documents the model runs on. *)

T_1 == <<"1">>
T_0 == <<"0">>
T_a == <<"a">>
Tag_hr == <<"{","g","}","h","r">>
Tag_cad == <<"{","g","}","c","a","d">>
Tag_latitude == <<"{","g","}">> \o K_latitude
Stamp_1 == <<"T","1">>

Trkpt(lat, lon, ele, time, extensions) ==
    [lat |-> lat, lon |-> lon, ele |-> ele, time |-> time, extensions |-> extensions]
Ext(tag, text) == [tag |-> tag, text |-> text]

\* The trackpoints of the runs of gpx_routes.py alone.
TrkptPool ==
    { \* heart rate, with a time
      Trkpt(T_1, T_0, Absent, Stamp_1, <<<<Ext(Tag_hr, <<"1","0">>)>>>>),
      \* cadence, with an elevation and no time
      Trkpt(<<"0",".","1">>, T_1, <<"1","0">>, Absent, <<<<Ext(Tag_cad, T_1)>>>>),
      \* no lat attribute
      Trkpt(NoneV, T_1, Absent, Stamp_1, <<>>),
      \* a lon that is no number
      Trkpt(T_1, T_a, Absent, Stamp_1, <<<<Ext(Tag_hr, T_1)>>>>),
      \* an extension value with two decimal points
      Trkpt(T_1, T_1, Absent, Stamp_1, <<<<Ext(Tag_hr, <<"1",".","0",".","1">>)>>>>) }

\* The trackpoints of the runs of both extractors over one corpus: each of
\* them parses.
TrkptPoolBoth ==
    { Trkpt(T_1, T_0, Absent, Stamp_1, <<<<Ext(Tag_hr, <<"1","0">>)>>>>),
      Trkpt(<<"0",".","1">>, T_1, <<"1","0">>, Absent, <<<<Ext(Tag_cad, T_1)>>>>),
      \* no extensions element
      Trkpt(T_0, T_1, Absent, Stamp_1, <<>>),
      \* two extensions, one of them text
      Trkpt(T_1, T_1, Absent, Absent, <<<<Ext(Tag_hr, T_a), Ext(Tag_cad, <<"1",".","0">>)>>>>),
      \* a time pandas cannot parse
      Trkpt(T_0, T_0, Absent, T_a, <<>>),
      \* an extension named like a fixed column
      Trkpt(T_1, T_1, Absent, Absent, <<<<Ext(Tag_latitude, T_a)>>>>) }

\* The sequences of at most n elements of S.
RECURSIVE SeqsUpTo(_, _)
SeqsUpTo(S, n) ==
    IF n = 0 THEN {<<>>}
    ELSE LET shorter == SeqsUpTo(S, n - 1)
         IN  shorter \cup {Append(q, x) : q \in {r \in shorter : Len(r) = n - 1}, x \in S}

Min(a, b) == IF a < b THEN a ELSE b

\* The contents of one document: not well-formed, or its trackpoints.
Contents(pool, budget) ==
    {[wellformed |-> FALSE, trkpts |-> <<>>]}
      \cup {[wellformed |-> TRUE, trkpts |-> t] : t \in SeqsUpTo(pool, Min(budget, MaxTrkpts))}

\* The runs of at most n documents holding at most budget trackpoints together.
RECURSIVE ContentSeqs(_, _, _)
ContentSeqs(pool, n, budget) ==
    IF n = 0 THEN {<<>>}
    ELSE {<<>>} \cup UNION {{<<c>> \o rest :
                               rest \in ContentSeqs(pool, n - 1, budget - Len(c.trkpts))}
                             : c \in Contents(pool, budget)}

\* glob gives every document a path of its own: d/a, d/b, ...
PathOf(i) == <<"d", "/", Ascii45[52 + i]>>

GpxCorpora(pool) ==
    {[i \in 1..Len(cs) |-> [path |-> PathOf(i), wellformed |-> cs[i].wellformed,
                            trkpts |-> cs[i].trkpts]]
       : cs \in ContentSeqs(pool, MaxFiles, MaxPoints)}

----------------------------------------------------------------------------
(* The export.xml documents the model runs on. *)

Type_HR == <<"H","R">>
Type_St == <<"S","t">>
RecordTypes == {Type_HR, Type_St}
Key_hr == <<"h","r">>
Key_cad == <<"c","a","d">>

Record(type, startDate, value, unit, sourceName, metadata) ==
    [type |-> type, startDate |-> startDate, value |-> value, unit |-> unit,
     sourceName |-> sourceName, metadata |-> metadata]
Entry(key, value) == [key |-> key, value |-> value]

RecordPool ==
    { Record(Type_HR, Stamp_1, <<"1","0">>, T_a, T_a, <<Entry(Key_hr, T_1)>>),
      Record(Type_HR, Stamp_1, T_1, T_a, T_a, <<Entry(Key_cad, T_0)>>),
      \* no metadata, and no unit attribute
      Record(Type_HR, Stamp_1, T_0, NoneV, T_a, <<>>),
      \* a metadata value that is present and empty
      Record(Type_HR, Stamp_1, T_1, T_a, T_a, <<Entry(Key_hr, <<>>)>>),
      \* a metadata key named like a fixed column
      Record(Type_HR, Stamp_1, T_1, T_a, T_a, <<Entry(K_value, T_a)>>),
      \* a MetadataEntry without a key attribute
      Record(Type_HR, Stamp_1, T_1, T_a, T_a, <<Entry(NoneV, T_1)>>),
      \* the same key twice, and a second key
      Record(Type_HR, Stamp_1, T_1, T_a, T_a,
             <<Entry(Key_hr, T_1), Entry(Key_cad, T_1), Entry(Key_hr, T_0)>>),
      \* a record of another type
      Record(Type_St, Stamp_1, T_1, T_a, T_a, <<Entry(Key_cad, T_1)>>) }

\* The Record elements that present the trackpoints of a GPX corpus to the
\* health exporter: the same fixed values and the same key/value entries, in
\* the same order; a document that is not well-formed yields none.
RecordOf(path, trkpt) ==
    Record(Type_HR,
           IF trkpt.time = Absent THEN NoneV ELSE trkpt.time,
           trkpt.lat, trkpt.lon, Basename(path),
           IF trkpt.extensions = <<>> THEN <<>>
           ELSE [i \in 1..Len(trkpt.extensions[1]) |->
                   Entry(SplitLast(trkpt.extensions[1][i].tag, "}"),
                         trkpt.extensions[1][i].text)])

RECURSIVE RecordsOf(_)
RecordsOf(files) ==
    IF files = <<>> THEN <<>>
    ELSE (IF Head(files).wellformed
          THEN [i \in 1..Len(Head(files).trkpts) |->
                  RecordOf(Head(files).path, Head(files).trkpts[i])]
          ELSE <<>>) \o RecordsOf(Tail(files))

----------------------------------------------------------------------------
(* Specifications. *)

\* A run of gpx_routes.py.
InitGpx ==
    /\ gpx_files \in GpxCorpora(TrkptPool)
    /\ gpc = "main"
    /\ gi = 1
    /\ all_data = <<>>
    /\ gerrors = <<>>
    /\ df = [columns |-> <<>>, rows |-> <<>>]
    /\ gout = [written |-> FALSE, columns |-> <<>>, rows |-> <<>>]
    /\ input_exists = FALSE
    /\ xml_records = <<>>
    /\ record_type = <<>>
    /\ hpc = "idle"
    /\ records = <<>>
    /\ p1 = 1
    /\ metadata_keys = {}
    /\ headers = <<>>
    /\ hi = 1
    /\ hout = [opened |-> FALSE, lines |-> <<>>]
    /\ header_writes = 0
    /\ ext_text = NoneV
    /\ ext_result = [done |-> FALSE, raised |-> FALSE, value |-> NoneV]

SpecGpx == InitGpx /\ [][GpxNext]_vars

\* A run of health_records.py --type record_type.
InitHealth ==
    /\ gpx_files = <<>>
    /\ gpc = "idle"
    /\ gi = 1
    /\ all_data = <<>>
    /\ gerrors = <<>>
    /\ df = [columns |-> <<>>, rows |-> <<>>]
    /\ gout = [written |-> FALSE, columns |-> <<>>, rows |-> <<>>]
    /\ input_exists \in BOOLEAN
    /\ xml_records \in SeqsUpTo(RecordPool, MaxRecords)
    /\ record_type \in RecordTypes
    /\ hpc = "main"
    /\ records = <<>>
    /\ p1 = 1
    /\ metadata_keys = {}
    /\ headers = <<>>
    /\ hi = 1
    /\ hout = [opened |-> FALSE, lines |-> <<>>]
    /\ header_writes = 0
    /\ ext_text = NoneV
    /\ ext_result = [done |-> FALSE, raised |-> FALSE, value |-> NoneV]

SpecHealth == InitHealth /\ [][HealthNext]_vars

\* Both extractors run over the same corpus.
InitBoth ==
    /\ gpx_files \in GpxCorpora(TrkptPoolBoth)
    /\ gpc = "main"
    /\ gi = 1
    /\ all_data = <<>>
    /\ gerrors = <<>>
    /\ df = [columns |-> <<>>, rows |-> <<>>]
    /\ gout = [written |-> FALSE, columns |-> <<>>, rows |-> <<>>]
    /\ input_exists = TRUE
    /\ xml_records = RecordsOf(gpx_files)
    /\ record_type = Type_HR
    /\ hpc = "main"
    /\ records = <<>>
    /\ p1 = 1
    /\ metadata_keys = {}
    /\ headers = <<>>
    /\ hi = 1
    /\ hout = [opened |-> FALSE, lines |-> <<>>]
    /\ header_writes = 0
    /\ ext_text = NoneV
    /\ ext_result = [done |-> FALSE, raised |-> FALSE, value |-> NoneV]

SpecBoth == InitBoth /\ [][GpxNext \/ HealthNext]_vars

\* The numeric-detection rule applied to one extension value.
Alphabet == {"0", "1", ".", "-", "e"}

ApplyExtValue ==
    /\ ~ext_result.done
    /\ ext_result' = [done |-> TRUE, raised |-> ExtValue(ext_text).raised,
                      value |-> ExtValue(ext_text).value]
    /\ UNCHANGED <<ext_text, gvars, hvars>>

InitNorm ==
    /\ gpx_files = <<>>
    /\ gpc = "idle"
    /\ gi = 1
    /\ all_data = <<>>
    /\ gerrors = <<>>
    /\ df = [columns |-> <<>>, rows |-> <<>>]
    /\ gout = [written |-> FALSE, columns |-> <<>>, rows |-> <<>>]
    /\ input_exists = FALSE
    /\ xml_records = <<>>
    /\ record_type = <<>>
    /\ hpc = "idle"
    /\ records = <<>>
    /\ p1 = 1
    /\ metadata_keys = {}
    /\ headers = <<>>
    /\ hi = 1
    /\ hout = [opened |-> FALSE, lines |-> <<>>]
    /\ header_writes = 0
    /\ ext_text \in SeqsUpTo(Alphabet, MaxTextLen) \cup {NoneV}
    /\ ext_result = [done |-> FALSE, raised |-> FALSE, value |-> NoneV]

SpecNorm == InitNorm /\ [][ApplyExtValue]_vars

----------------------------------------------------------------------------
(* Properties of process_gpx_files. *)

\* The rows of data that carry the file name of the document at path.
RowsNamed(data, path) ==
    SelectSeq(data, LAMBDA d : DictGet(d, K_filename, NoneV) = Basename(path))

InSeq(q, x) == \E i \in 1..Len(q) : q[i] = x

\* The documents the loop has finished with.
Processed == IF gpc \in {"main", "idle"} THEN {} ELSE 1..(gi - 1)

\* The records of the documents 1..n that parse, in document order.
RECURSIVE GoodRecords(_, _)
GoodRecords(files, n) ==
    IF n = 0 THEN <<>>
    ELSE GoodRecords(files, n - 1)
           \o (IF parse_gpx_file(files[n]).raised THEN <<>> ELSE parse_gpx_file(files[n]).data)

\* The table holds the dicts of all_data, row by row, NaN where a dict lacks
\* the column; the time column is left out, since to_datetime rewrites it.
TableHolds(table, data) ==
    /\ Len(table.rows) = Len(data)
    /\ \A r \in 1..Len(data) :
         /\ \A k \in 1..Len(data[r]) : InSeq(table.columns, data[r][k][1])
         /\ \A c \in 1..Len(table.columns) :
              table.columns[c] # K_time
                => table.rows[r][c] = DictGet(data[r], table.columns[c], NaN)

\* C4. Per-unit failure isolation: whichever documents fail to parse, the loop
\* of process_gpx_files goes on to the last document; a failing document is
\* reported and leaves no row, not even of the trackpoints parsed before the
\* failure; all_data and the table built from it hold exactly the records of
\* the documents that parse, in document order and in trackpoint order.
C4_UnitFailureIsolation ==
    /\ gpc = "exit1" => (gpx_files = <<>> \/ gi = Len(gpx_files) + 1)
    /\ \A i \in Processed :
         IF parse_gpx_file(gpx_files[i]).raised
         THEN /\ RowsNamed(all_data, gpx_files[i].path) = <<>>
              /\ InSeq(gerrors, gpx_files[i].path)
         ELSE /\ Len(RowsNamed(all_data, gpx_files[i].path)) = Len(gpx_files[i].trkpts)
              /\ ~InSeq(gerrors, gpx_files[i].path)
    /\ gpc \notin {"main", "idle"} => all_data = GoodRecords(gpx_files, gi - 1)
    /\ gpc \in {"to_datetime", "to_csv", "exit0"} => TableHolds(df, all_data)
    /\ gout.written => TableHolds(gout, all_data)

\* A run that wrote its table although its first document failed after one
\* trackpoint had been parsed, and whose second document parsed.
C4_Witness ==
    /\ gpc = "exit0"
    /\ gout.written
    /\ Len(gpx_files) = 2
    /\ parse_gpx_file(gpx_files[1]).raised
    /\ parse_gpx_file(gpx_files[1]).data # <<>>
    /\ ~parse_gpx_file(gpx_files[2]).raised
    /\ Len(gout.rows) = 1

\* A trackpoint whose lat or lon attribute is missing or is no number.
BadCoordinates(trkpt) == PyFloat(trkpt.lat).raised \/ PyFloat(trkpt.lon).raised

\* The documents that are well-formed and whose trackpoints fail, if at all, on
\* their coordinates alone.
OnlyBadCoordinates(file) ==
    /\ file.wellformed
    /\ \A j \in 1..Len(file.trkpts) :
         PointData(Basename(file.path), file.trkpts[j]).raised => BadCoordinates(file.trkpts[j])

\* C5 as claimed. Per-record failure isolation: a trackpoint with a missing or
\* unparsable lat or lon is discarded alone; every other trackpoint of its
\* document is in the output.
C5_RecordFailureIsolation ==
    \A i \in Processed :
       OnlyBadCoordinates(gpx_files[i]) =>
          \A j \in 1..Len(gpx_files[i].trkpts) :
             ~BadCoordinates(gpx_files[i].trkpts[j]) =>
                InSeq(all_data, PointData(Basename(gpx_files[i].path), gpx_files[i].trkpts[j]).dict)

\* C5 as amended. A trackpoint with a missing or unparsable lat or lon makes
\* parse_gpx_file raise: its whole document is discarded (no trackpoint of it
\* is in the output, those before the bad one included) and reported; the loop
\* goes on, and the documents that parse keep all their trackpoints.
C5_RecordFailureDiscardsUnit ==
    /\ gpc = "exit1" => (gpx_files = <<>> \/ gi = Len(gpx_files) + 1)
    /\ \A i \in Processed :
         /\ (gpx_files[i].wellformed /\ \E j \in 1..Len(gpx_files[i].trkpts) :
                                            BadCoordinates(gpx_files[i].trkpts[j]))
              => /\ RowsNamed(all_data, gpx_files[i].path) = <<>>
                 /\ InSeq(gerrors, gpx_files[i].path)
         /\ (gpx_files[i].wellformed /\ \A j \in 1..Len(gpx_files[i].trkpts) :
                                            ~PointData(Basename(gpx_files[i].path),
                                                       gpx_files[i].trkpts[j]).raised)
              => \A j \in 1..Len(gpx_files[i].trkpts) :
                    InSeq(all_data, PointData(Basename(gpx_files[i].path),
                                              gpx_files[i].trkpts[j]).dict)

\* The loop is over; a document held a good trackpoint followed by one with
\* bad coordinates, and another document gave a row.
C5_Witness ==
    /\ gpc = "frame"
    /\ \E i \in 1..Len(gpx_files) :
         /\ gpx_files[i].wellformed
         /\ Len(gpx_files[i].trkpts) = 2
         /\ ~PointData(Basename(gpx_files[i].path), gpx_files[i].trkpts[1]).raised
         /\ BadCoordinates(gpx_files[i].trkpts[2])
    /\ Len(all_data) = 1


----------------------------------------------------------------------------
(* Properties of export_record_type. *)

\* The records of the requested type, in document order.
Matching == SelectSeq(xml_records, LAMBDA r : r.type = record_type)

\* The metadata keys of the records 1..n of q.
KeysOf(q, n) == UNION {{q[r].metadata[i].key : i \in 1..Len(q[r].metadata)} : r \in 1..n}

\* The value of the last MetadataEntry of record with key k.
LastValue(record, k) ==
    LET at == {i \in 1..Len(record.metadata) : record.metadata[i].key = k}
    IN  record.metadata[CHOOSE i \in at : \A j \in at : j <= i].value

NoDuplicates(q) == \A i, j \in 1..Len(q) : q[i] = q[j] => i = j

\* The rows written so far (the lines after the header).
RowLines == IF hout.lines = <<>> THEN <<>> ELSE Tail(hout.lines)

\* C9. Row completeness: every row export_record_type writes has one cell per
\* header column, in header order: the row dict holds no key outside the
\* header (the writer never rejects a row), and the row is as long as the
\* four fixed columns plus the dynamic columns, whichever keys its record has.
C9_RowCompleteness ==
    /\ hpc = "exit1" => ~hout.opened
    /\ hout.opened =>
         /\ Len(hout.lines[1]) = Len(HealthFixed) + Cardinality(KeysOf(Matching, Len(Matching)))
         /\ Len(RowLines) = (IF hpc = "exit0" THEN Len(Matching) ELSE hi - 1)
         /\ \A r \in 1..Len(RowLines) :
              /\ Len(RowLines[r]) = Len(hout.lines[1])
              /\ \A k \in 1..Len(RowDict(Matching[r])) :
                   InSeq(hout.lines[1], RowDict(Matching[r])[k][1])
              /\ \A c \in 1..Len(hout.lines[1]) :
                   RowLines[r][c] = DictGet(RowDict(Matching[r]), hout.lines[1][c], <<>>)

\* A finished export of two records with different key sets under a header of
\* two dynamic columns.
C9_Witness ==
    /\ hpc = "exit0"
    /\ Len(RowLines) = 2
    /\ Len(hout.lines[1]) = 6
    /\ KeysOf(Matching, 1) # KeysOf(Matching, 2)
    /\ \E r \in 1..2 : Len(RowDict(Matching[r])) < 6

C3_NullPreservation ==
    (hout.opened /\ \A k \in KeysOf(Matching, Len(Matching)) : ~InSeq(HealthFixed, k)) =>
      \A r \in 1..Len(RowLines) : \A c \in (Len(HealthFixed) + 1)..Len(hout.lines[1]) :
         LET K == hout.lines[1][c]
         IN  IF K \in EntryKeys(Matching[r])
             THEN RowLines[r][c] = LastValue(Matching[r], K)
             ELSE /\ RowLines[r][c] = <<>>
                  /\ \A q \in 1..Len(RowLines) :
                       (K \in EntryKeys(Matching[q]) /\ LastValue(Matching[q], K) = <<>>)
                          => RowLines[q][c] # RowLines[r][c]

\* C6. Schema collision: a record with a metadata key named like a fixed
\* column makes the run fail before anything is written; no header names a
\* column twice; no fixed cell holds anything but the record's attribute.
C6_SchemaCollision ==
    /\ (\E k \in KeysOf(Matching, Len(Matching)) : InSeq(HealthFixed, k))
          => (~hout.opened /\ hpc # "exit0")
    /\ hout.opened => NoDuplicates(hout.lines[1])
    /\ \A r \in 1..Len(RowLines) :
         /\ RowLines[r][1] = Matching[r].startDate
         /\ RowLines[r][2] = Matching[r].value
         /\ RowLines[r][3] = Matching[r].unit
         /\ RowLines[r][4] = Matching[r].sourceName


----------------------------------------------------------------------------
(* Properties of the two extractors over one corpus. *)

\* The extension keys of the trackpoints of the documents that parse.
CorpusKeys ==
    UNION {UNION {IF gpx_files[i].trkpts[j].extensions = <<>> THEN {}
                  ELSE {SplitLast(gpx_files[i].trkpts[j].extensions[1][e].tag, "}") :
                          e \in 1..Len(gpx_files[i].trkpts[j].extensions[1])}
                    : j \in 1..Len(gpx_files[i].trkpts)}
             : i \in {n \in 1..Len(gpx_files) : ~parse_gpx_file(gpx_files[n]).raised}}

\* The columns that follow the first n of a header.
After(header, n) == SubSeq(header, n + 1, Len(header))

\* C2. Schema determinism: the header of either extractor is the fixed
\* columns in their declared order followed by the sorted union of the dynamic
\* keys of the corpus.  (Stated for the tables with at least one row and for
\* the corpora without a key named like a fixed column.)
C2_SchemaDeterminism ==
    /\ (gout.written /\ gout.rows # <<>> /\ \A k \in CorpusKeys : ~InSeq(GpxFixed, k))
          => gout.columns = GpxFixed \o Sorted(CorpusKeys)
    /\ (hout.opened /\ \A k \in KeysOf(Matching, Len(Matching)) : ~InSeq(HealthFixed, k))
          => hout.lines[1] = HealthFixed \o Sorted(KeysOf(Matching, Len(Matching)))

\* C1. Strategy equivalence: when both drivers have written their table of
\* the same corpus, the dynamic columns are the same, in the same order, and
\* the rows are the same records in the same order, with a null cell in the
\* same places.  (Stated for the corpora without a key named like a fixed
\* column.)
C1_StrategyEquivalence ==
    (gpc = "exit0" /\ hpc = "exit0" /\ gout.written /\ hout.opened
       /\ \A k \in CorpusKeys : ~InSeq(GpxFixed, k) /\ ~InSeq(HealthFixed, k)) =>
        /\ After(gout.columns, Len(GpxFixed)) = After(hout.lines[1], Len(HealthFixed))
        /\ Len(gout.rows) = Len(RowLines)
        /\ \A r \in 1..Len(RowLines) :
             /\ r <= Len(gout.rows)
             /\ gout.rows[r][1] = RowLines[r][4]
             /\ gout.rows[r][2] = PyFloat(RowLines[r][2]).value
             /\ \A c \in 1..(Len(hout.lines[1]) - Len(HealthFixed)) :
                  c + Len(GpxFixed) <= Len(gout.columns) =>
                    ((gout.rows[r][c + Len(GpxFixed)] \in {NaN, NoneV})
                       <=> (RowLines[r][c + Len(HealthFixed)] = <<>>))

\* C7. Fatal conditions and exit status: a run ends with a non-zero status,
\* and without a table, exactly when it found no source unit or no record;
\* every other run ends with status zero.
C7_FatalExactlyWhenEmpty ==
    /\ gpc \in {"exit0", "exit1"} =>
         /\ (gpc = "exit1") <=> (gpx_files = <<>> \/ all_data = <<>>)
         /\ gpc = "exit1" => ~gout.written
    /\ hpc \in {"exit0", "exit1"} =>
         /\ (hpc = "exit1") <=> (~input_exists \/ Matching = <<>>)
         /\ hpc = "exit1" => ~hout.opened

----------------------------------------------------------------------------
(* Properties of the numeric-detection rule. *)

\* Removing at most one '.' from text leaves a non-empty string of digits.
DigitsButOneDot(text) ==
    \/ IsDigit(text)
    \/ \E i \in 1..Len(text) :
          /\ text[i] = "."
          /\ IsDigit(SubSeq(text, 1, i - 1) \o SubSeq(text, i + 1, Len(text)))

\* C8. Numeric-detection rule: normalising an extension value never fails; an
\* element without text gives a null cell; a value is numeric exactly when
\* removing at most one '.' leaves a non-empty string of digits; any other
\* value is kept as the text it was.
C8_NumericDetection ==
    ext_result.done =>
        /\ ~ext_result.raised
        /\ ext_text = NoneV => ext_result.value = NoneV
        /\ ext_text # NoneV =>
             /\ IsFloat(ext_result.value) <=> DigitsButOneDot(ext_text)
             /\ ~DigitsButOneDot(ext_text) => ext_result.value = ext_text


====
